---- MODULE Spec2Model ----
(***************************************************************************)
(* A model of cad_viewer: the scene compiler (gpu_data/gpu_data.rs), the   *)
(* bounding volume (viewer/bbox.rs), the orbit camera (viewer/camera.rs,   *)
(* viewer/camera_data.rs) and the event dispatch of the renderer           *)
(* (viewer/renderer.rs, viewer/viewer.rs).                                 *)
(***************************************************************************)
EXTENDS Integers, Sequences, FiniteSets, TLC

VARIABLES
    cad,            \* the CADData handed to the renderer (node tree, read-only)
    failing,        \* the meshes whose GPU resource creation fails (environment)
    shapes,         \* GPUData::shapes
    instances,      \* GPUData::instances
    last_result,    \* what the latest add_cad_data call returned: "none", "ok", "err"
    ncalls,         \* number of add_cad_data calls made so far
    camera,         \* Renderer::camera
    scene_volume,   \* Renderer::scene_volume
    width,          \* Renderer::width
    height,         \* Renderer::height
    shader,         \* Renderer::shader is Some
    cursor_pos,     \* the cursor position Viewer::run keeps
    phase,          \* where the program is: "created", "constructed", "running",
                    \* "failed" (initialize returned an error), "panicked"
    nev,            \* number of events the event loop has delivered
    frame,          \* the draw calls the latest Renderer::draw issued, in order
    cam_data,       \* the CameraData that to_string encodes
    json,           \* the text to_string returned (None before the call)
    cam_data2,      \* the CameraData that set_from_string decodes into
    decode_result   \* what set_from_string returned: "none", "ok", "err"

gpu_vars == <<cad, failing, shapes, instances, last_result, ncalls>>
view_vars == <<camera, scene_volume, width, height, shader, cursor_pos, phase, nev, frame>>

ser_vars == <<cam_data, json, cam_data2, decode_result>>

vars == <<gpu_vars, view_vars, ser_vars>>

-----------------------------------------------------------------------------
(* Bounds of the model *)

MaxNodes == 3
MaxCompiles == 2
MaxEvents == 5

-----------------------------------------------------------------------------
(* f32 arithmetic.  A value is a fixed-point number with two decimals       *)
(* (1.00 is Scale), finite between -FMax and FMax, or one of +inf, -inf,    *)
(* NaN.  Results beyond FMax overflow to an infinity and invalid operations *)
(* give NaN, as in IEEE 754; finite results are truncated to the grid.      *)

Scale == 10 * 10
\* f32::MAX, the largest finite value (400.00 on the model's grid)
FMax == 400 * Scale
PInf == FMax + 1
NInf == -PInf
NaN == FMax + 2

IsNaN(a) == a = NaN
IsInf(a) == a = PInf \/ a = NInf
IsFin(a) == a >= -FMax /\ a <= FMax

F32 == (-FMax..FMax) \cup {PInf, NInf, NaN}

Abs(n) == IF n < 0 THEN -n ELSE n
Sign(n) == IF n < 0 THEN -1 ELSE IF n > 0 THEN 1 ELSE 0
TruncDiv(n, d) == Sign(n) * Sign(d) * (Abs(n) \div Abs(d))

\* an exact result n (on the grid) as an f32: overflow gives an infinity
Norm(n) == IF n > FMax THEN PInf ELSE IF n < -FMax THEN NInf ELSE n

FNeg(a) == IF IsNaN(a) THEN NaN ELSE -a

FAdd(a, b) ==
    IF IsNaN(a) \/ IsNaN(b) THEN NaN
    ELSE IF IsInf(a) /\ IsInf(b) THEN (IF a = b THEN a ELSE NaN)
    ELSE IF IsInf(a) THEN a
    ELSE IF IsInf(b) THEN b
    ELSE Norm(a + b)

FSub(a, b) == FAdd(a, FNeg(b))

FMul(a, b) ==
    IF IsNaN(a) \/ IsNaN(b) THEN NaN
    ELSE IF IsInf(a) \/ IsInf(b)
         THEN (IF a = 0 \/ b = 0 THEN NaN
               ELSE IF Sign(a) * Sign(b) > 0 THEN PInf ELSE NInf)
    ELSE Norm(TruncDiv(a * b, Scale))

FDiv(a, b) ==
    IF IsNaN(a) \/ IsNaN(b) THEN NaN
    ELSE IF IsInf(a) /\ IsInf(b) THEN NaN
    ELSE IF IsInf(a) THEN (IF Sign(a) * (IF b < 0 THEN -1 ELSE 1) > 0 THEN PInf ELSE NInf)
    ELSE IF IsInf(b) THEN 0
    ELSE IF b = 0 THEN (IF a = 0 THEN NaN ELSE IF a > 0 THEN PInf ELSE NInf)
    ELSE Norm(TruncDiv(a * Scale, b))

\* comparisons with NaN are false
FLe(a, b) == ~IsNaN(a) /\ ~IsNaN(b) /\ a <= b
FGt(a, b) == ~IsNaN(a) /\ ~IsNaN(b) /\ a > b

\* f32::min / f32::max: a NaN operand is ignored
FMin(a, b) == IF IsNaN(a) THEN b ELSE IF IsNaN(b) THEN a ELSE IF a < b THEN a ELSE b
FMaxOf(a, b) == IF IsNaN(a) THEN b ELSE IF IsNaN(b) THEN a ELSE IF a > b THEN a ELSE b

\* u32 as f32
U32AsF32(w) == Norm(w * Scale)

\* the largest r in lo..hi with r * r <= n
RECURSIVE ISqrt(_, _, _)
ISqrt(n, lo, hi) ==
    IF lo >= hi THEN lo
    ELSE LET mid == (lo + hi + 1) \div 2
         IN IF mid * mid <= n THEN ISqrt(n, mid, hi) ELSE ISqrt(n, lo, mid - 1)

FSqrt(a) ==
    IF IsNaN(a) \/ a < 0 THEN NaN
    ELSE IF a = PInf THEN PInf
    ELSE ISqrt(a * Scale, 0, 20 * Scale)

\* e^k for k = 0..5 on the grid, and e^-k for k = 0..7 with four more decimals
ExpTab == <<100, 272, 739, 2009, 5460, 14841>>
ExpNegTab == <<10000, 3679, 1353, 498, 183, 67, 25, 9>>

\* e^(f/100) for f in 0..99, six decimals, by the power series
RECURSIVE ExpSeries(_, _, _)
ExpSeries(f, n, term) ==
    IF term = 0 THEN 0
    ELSE term + ExpSeries(f, n + 1, (term * f) \div (Scale * (n + 1)))

FExp(a) ==
    IF IsNaN(a) THEN NaN
    ELSE IF a = PInf THEN PInf
    ELSE IF a = NInf THEN 0
    ELSE LET k == a \div Scale
             f == a % Scale
             frac == ExpSeries(f, 0, 1000000) \div 100
         IN IF k >= 6 THEN PInf
            ELSE IF k < -7 THEN 0
            ELSE IF k >= 0 THEN Norm((ExpTab[k + 1] * frac) \div 10000)
            ELSE (ExpNegTab[1 - k] * frac) \div 1000000

\* the largest r in lo..hi with e^r <= a (e^lo <= a is given)
RECURSIVE LnSearch(_, _, _)
LnSearch(a, lo, hi) ==
    IF lo >= hi THEN lo
    ELSE LET mid == (lo + hi + 1) \div 2
         IN IF FExp(mid) <= a THEN LnSearch(a, mid, hi) ELSE LnSearch(a, lo, mid - 1)

FLn(a) ==
    IF IsNaN(a) \/ a < 0 THEN NaN
    ELSE IF a = PInf THEN PInf
    ELSE IF a = 0 THEN NInf
    ELSE LnSearch(a, -8 * Scale, 6 * Scale)

\* cos and sin of x in 0..157 (a quarter turn is 1.57), four decimals
RECURSIVE TrigSeries(_, _, _)
TrigSeries(x2, n, term) ==
    IF term = 0 THEN 0
    ELSE term - TrigSeries(x2, n + 2, (term * x2) \div (10000 * (n + 1) * (n + 2)))

RoundToGrid(v) == Sign(v) * ((Abs(v) + 50) \div 100)

CosQ(x) == RoundToGrid(TrigSeries(x * x, 0, 10000))
SinQ(x) == RoundToGrid(TrigSeries(x * x, 1, x * 100))

\* cos and sin of any angle, reduced to the first quadrant
FCos(a) ==
    IF ~IsFin(a) THEN NaN
    ELSE LET t == a % 628
             h == IF t >= 314 THEN t - 314 ELSE t
             s == IF t >= 314 THEN -1 ELSE 1
         IN IF h > 157 THEN -s * CosQ(314 - h) ELSE s * CosQ(h)

FSin(a) ==
    IF ~IsFin(a) THEN NaN
    ELSE LET t == a % 628
             h == IF t >= 314 THEN t - 314 ELSE t
             s == IF t >= 314 THEN -1 ELSE 1
         IN IF h > 157 THEN s * SinQ(314 - h) ELSE s * SinQ(h)

(* Vec3 and Mat3 (a sequence of three columns, as nalgebra stores it) *)

VAdd(u, v) == <<FAdd(u[1], v[1]), FAdd(u[2], v[2]), FAdd(u[3], v[3])>>
VSub(u, v) == <<FSub(u[1], v[1]), FSub(u[2], v[2]), FSub(u[3], v[3])>>
VScale(u, k) == <<FMul(u[1], k), FMul(u[2], k), FMul(u[3], k)>>
VDivS(u, k) == <<FDiv(u[1], k), FDiv(u[2], k), FDiv(u[3], k)>>
Dot(u, v) == FAdd(FAdd(FMul(u[1], v[1]), FMul(u[2], v[2])), FMul(u[3], v[3]))
Length(u) == FSqrt(Dot(u, u))
Normalize(u) == LET n == Length(u) IN VDivS(u, n)

Column(m, j) == m[j]
Identity3 == <<<<Scale, 0, 0>>, <<0, Scale, 0>>, <<0, 0, Scale>>>>
\* entry (row i, column j)
At(m, i, j) == m[j][i]
MatVecRow(m, v, i) ==
    FAdd(FAdd(FMul(At(m, i, 1), v[1]), FMul(At(m, i, 2), v[2])), FMul(At(m, i, 3), v[3]))
MatVec(m, v) == <<MatVecRow(m, v, 1), MatVecRow(m, v, 2), MatVecRow(m, v, 3)>>
Mat3Mul(a, b) == <<MatVec(a, b[1]), MatVec(a, b[2]), MatVec(a, b[3])>>

-----------------------------------------------------------------------------
(* Mat4: 4x4 matrices, a sequence of four rows; the product is the matrix product *)

Identity4 == <<<<1, 0, 0, 0>>, <<0, 1, 0, 0>>, <<0, 0, 1, 0>>, <<0, 0, 0, 1>>>>

Mat4Entry(a, b, i, j) ==
    a[i][1] * b[1][j] + a[i][2] * b[2][j] + a[i][3] * b[3][j] + a[i][4] * b[4][j]
Mat4Row(a, b, i) ==
    <<Mat4Entry(a, b, i, 1), Mat4Entry(a, b, i, 2), Mat4Entry(a, b, i, 3), Mat4Entry(a, b, i, 4)>>
Mat4Mul(a, b) == <<Mat4Row(a, b, 1), Mat4Row(a, b, 2), Mat4Row(a, b, 3), Mat4Row(a, b, 4)>>

\* the local transforms the scene graphs of the model carry: a translation by
\* (1, 0, 0) and a quarter turn about z (they do not commute)
TransA == <<<<1, 0, 0, 1>>, <<0, 1, 0, 0>>, <<0, 0, 1, 0>>, <<0, 0, 0, 1>>>>
TransB == <<<<0, -1, 0, 0>>, <<1, 0, 0, 0>>, <<0, 0, 1, 0>>, <<0, 0, 0, 1>>>>

None == <<>>
Some(t) == <<t>>

-----------------------------------------------------------------------------
(* The scene graph (cad_import::structure::Node / Shape), read-only input *)

NodeIds == 1..MaxNodes
RootNode == 1
ShapeIds == {1, 2}

\* the parts of a shape: shape 1 has one part, shape 2 has two; a mesh is named
\* by <<shape id, part number>>
ShapeParts(sid) ==
    [k \in 1..sid |-> [mesh |-> <<sid, k>>, material |-> sid]]

ShapeRefChoices == {<<>>, <<1>>, <<1, 2>>}
FailingChoices == {{}, {<<2, 2>>}}

\* every tree over NodeIds: node n > 1 hangs below a node with a smaller id
CadChoices ==
    [parent : {p \in [NodeIds -> 0..MaxNodes] :
                  /\ p[RootNode] = 0
                  /\ \A n \in NodeIds \ {RootNode} : p[n] \in 1..(n - 1)},
     transform : {t \in [NodeIds -> {None, Some(TransA), Some(TransB)}] :
                  t[RootNode] # Some(TransB)},
     shapes : [NodeIds -> ShapeRefChoices]]

RECURSIVE ConcatAll(_)
ConcatAll(ss) == IF ss = <<>> THEN <<>> ELSE Head(ss) \o ConcatAll(Tail(ss))

\* Mesh::get_vertices().get_positions(): the vertex positions of a mesh
MeshPositions(mesh) ==
    IF mesh = <<1, 1>> THEN <<<<2 * Scale, 0, 0>>>>
    ELSE IF mesh = <<2, 1>> THEN <<<<0, 0, 0>>, <<2 * Scale, 0, 0>>>>
    ELSE <<<<0, 2 * Scale, 0>>>>

RECURSIVE SeqOfSet(_)
SeqOfSet(S) ==
    IF S = {} THEN <<>>
    ELSE LET m == CHOOSE x \in S : \A y \in S : x <= y
         IN <<m>> \o SeqOfSet(S \ {m})

\* Node::get_children: the children in stored order (by id)
Children(c, n) == SeqOfSet({m \in NodeIds : c.parent[m] = n})

-----------------------------------------------------------------------------
(* TraversalContext *)

TraversalContextNew(c) ==
    [transform |-> IF c.transform[RootNode] # None
                   THEN c.transform[RootNode][1] ELSE Identity4]

DeriveReversed(c, ctx, node) ==
    IF c.transform[node] # None
    THEN [transform |-> Mat4Mul(c.transform[node][1], ctx.transform)]
    ELSE ctx

Derive(c, ctx, node) ==
    IF c.transform[node] # None
    THEN [transform |-> Mat4Mul(ctx.transform, c.transform[node][1])]
    ELSE ctx

-----------------------------------------------------------------------------
(* GPUData: the scene compiler.  A traversal state st is                   *)
(* [shapes, instances, shape_map, err].                                    *)

\* GPUMesh::new fails when the GL layer cannot create the mesh's resources
RECURSIVE CreateParts(_, _, _)
CreateParts(parts, k, fl) ==
    IF k > Len(parts) THEN [err |-> FALSE, parts |-> <<>>]
    ELSE IF parts[k].mesh \in fl THEN [err |-> TRUE, parts |-> <<>>]
    ELSE LET rest == CreateParts(parts, k + 1, fl)
         IN [err |-> rest.err,
             parts |-> IF rest.err THEN <<>> ELSE <<parts[k]>> \o rest.parts]

CreateGpuShape(sid, fl) == CreateParts(ShapeParts(sid), 1, fl)

GetShapeIndexAfterPush(st, sid, fl) ==
    IF sid \in DOMAIN st.shape_map
    THEN [st |-> st, index |-> st.shape_map[sid], err |-> FALSE]
    ELSE LET gpu_shape == CreateGpuShape(sid, fl)
         IN IF gpu_shape.err
            THEN [st |-> st, index |-> 0, err |-> TRUE]
            ELSE [st |-> [st EXCEPT !.shapes = Append(@, [parts |-> gpu_shape.parts])],
                  index |-> Len(st.shapes) + 1, err |-> FALSE]

\* the new shape is pushed, its index is not recorded in shape_map
GetShapeIndex(st, sid, fl) ==
    IF sid \in DOMAIN st.shape_map
    THEN [st |-> st, index |-> st.shape_map[sid], err |-> FALSE]
    ELSE LET index == Cardinality(DOMAIN st.shape_map)
             gpu_shape == CreateGpuShape(sid, fl)
         IN IF gpu_shape.err
            THEN [st |-> st, index |-> 0, err |-> TRUE]
            ELSE [st |-> [st EXCEPT !.shapes = Append(@, [parts |-> gpu_shape.parts])],
                  index |-> index, err |-> FALSE]

PushInstanceOnce(st, transform, shape_index) ==
    IF \E i \in 1..Len(st.instances) :
          st.instances[i] = [transform |-> transform, shape_index |-> shape_index]
    THEN st
    ELSE [st EXCEPT !.instances =
              Append(@, [transform |-> transform, shape_index |-> shape_index])]

PushInstance(st, transform, shape_index) ==
    [st EXCEPT !.instances =
        Append(@, [transform |-> transform, shape_index |-> shape_index])]

RECURSIVE ShapeLoop(_, _, _, _, _, _)
ShapeLoop(c, fl, node, ctx, st, k) ==
    IF k > Len(c.shapes[node]) THEN st
    ELSE LET r == GetShapeIndex(st, c.shapes[node][k], fl)
         IN IF r.err THEN [r.st EXCEPT !.err = TRUE]
            ELSE ShapeLoop(c, fl, node, ctx,
                           PushInstance(r.st, ctx.transform, r.index), k + 1)

RECURSIVE Traverse(_, _, _, _, _)
RECURSIVE ChildLoop(_, _, _, _, _, _)
\* a child loop that goes on with the next child after a child failed
RECURSIVE ChildLoopContinuing(_, _, _, _, _, _)
ChildLoopContinuing(c, fl, node, ctx, st, k) ==
    LET ch == Children(c, node)
    IN IF k > Len(ch) THEN st
       ELSE LET r == Traverse(c, fl, ch[k], Derive(c, ctx, ch[k]), st)
                rest == ChildLoopContinuing(c, fl, node, ctx, [r EXCEPT !.err = FALSE], k + 1)
            IN [rest EXCEPT !.err = r.err \/ rest.err]

ChildLoop(c, fl, node, ctx, st, k) ==
    LET ch == Children(c, node)
    IN IF k > Len(ch) THEN st
       ELSE LET r == Traverse(c, fl, ch[k], Derive(c, ctx, ch[k]), st)
            IN IF r.err THEN r
               ELSE ChildLoop(c, fl, node, ctx, r, k + 1)

\* a traversal that descends into the children before it takes the node's shapes
TraverseChildrenFirst(c, fl, node, ctx, st) ==
    LET s1 == ChildLoop(c, fl, node, ctx, st, 1)
    IN IF s1.err THEN s1
       ELSE ShapeLoop(c, fl, node, ctx, s1, 1)

Traverse(c, fl, node, ctx, st) ==
    LET s1 == ShapeLoop(c, fl, node, ctx, st, 1)
    IN IF s1.err THEN s1
       ELSE ChildLoop(c, fl, node, ctx, s1, 1)

\* GPUData::add_cad_data: one whole compile call, on the lists as they are
AddCadDataResult(c, fl, shps, insts) ==
    Traverse(c, fl, RootNode, TraversalContextNew(c),
             [shapes |-> shps, instances |-> insts, shape_map |-> <<>>, err |-> FALSE])

AddCadData ==
    /\ ncalls < MaxCompiles
    /\ LET r == AddCadDataResult(cad, failing, shapes, instances)
       IN /\ shapes' = r.shapes
          /\ instances' = r.instances
          /\ last_result' = IF r.err THEN "err" ELSE "ok"
    /\ ncalls' = ncalls + 1
    /\ UNCHANGED <<cad, failing>>
    /\ UNCHANGED view_vars
    /\ UNCHANGED ser_vars

-----------------------------------------------------------------------------
(* BBox *)

BBoxNew == [min |-> <<FMax, FMax, FMax>>, max |-> <<-FMax, -FMax, -FMax>>]

\* an emptiness test that also rejects a volume flat on an axis
IsEmptyOrFlat(b) ==
    FLe(b.max[1], b.min[1]) \/ FLe(b.max[2], b.min[2]) \/ FLe(b.max[3], b.min[3])

IsEmpty(b) ==
    FGt(b.min[1], b.max[1]) \/ FGt(b.min[2], b.max[2]) \/ FGt(b.min[3], b.max[3])

\* an extend that assigns the first upper coordinate instead of maximising it
ExtendPosAssignMax(b, p) ==
    [min |-> <<FMin(b.min[1], p[1]), FMin(b.min[2], p[2]), FMin(b.min[3], p[3])>>,
     max |-> <<IF IsNaN(p[1]) THEN b.max[1] ELSE p[1],
               FMaxOf(b.max[2], p[2]), FMaxOf(b.max[3], p[3])>>]

ExtendPos(b, p) ==
    [min |-> <<FMin(b.min[1], p[1]), FMin(b.min[2], p[2]), FMin(b.min[3], p[3])>>,
     max |-> <<FMaxOf(b.max[1], p[1]), FMaxOf(b.max[2], p[2]), FMaxOf(b.max[3], p[3])>>]

\* an extend that takes the lower corner of the other volume as it is
ExtendBBoxTakeMin(b, rhs) ==
    [min |-> rhs.min,
     max |-> <<FMaxOf(b.max[1], rhs.max[1]), FMaxOf(b.max[2], rhs.max[2]),
               FMaxOf(b.max[3], rhs.max[3])>>]

ExtendBBox(b, rhs) ==
    [min |-> <<FMin(b.min[1], rhs.min[1]), FMin(b.min[2], rhs.min[2]),
               FMin(b.min[3], rhs.min[3])>>,
     max |-> <<FMaxOf(b.max[1], rhs.max[1]), FMaxOf(b.max[2], rhs.max[2]),
               FMaxOf(b.max[3], rhs.max[3])>>]

GetCenter(b) == VDivS(VAdd(b.min, b.max), 2 * Scale)

GetSize(b) == VSub(b.max, b.min)

-----------------------------------------------------------------------------
(* Renderer::compute_bbox *)

\* transform * (p, 1), the transform's entries being whole numbers
TransformRow(t, p, i) ==
    Norm(t[i][1] * p[1] + t[i][2] * p[2] + t[i][3] * p[3] + t[i][4] * Scale)
TransformPoint(t, p) == <<TransformRow(t, p, 1), TransformRow(t, p, 2), TransformRow(t, p, 3)>>

RECURSIVE ExtendAll(_, _)
ExtendAll(b, ps) == IF ps = <<>> THEN b ELSE ExtendAll(ExtendPos(b, Head(ps)), Tail(ps))

\* the positions of all parts of all shapes of a node, in loop order
NodePositions(c, node) ==
    ConcatAll([k \in 1..Len(c.shapes[node]) |->
        LET parts == ShapeParts(c.shapes[node][k])
        IN ConcatAll([m \in 1..Len(parts) |-> MeshPositions(parts[m].mesh)])])

\* an update that multiplies the node's transform from the left
NodeTransformReversed(c, node, transform) ==
    IF c.transform[node] # None
    THEN Mat4Mul(c.transform[node][1], transform) ELSE transform

\* the transform compute_bbox gives a node: the one handed down, times the
\* node's own if it has one
NodeTransform(c, node, transform) ==
    IF c.transform[node] # None
    THEN Mat4Mul(transform, c.transform[node][1]) ELSE transform

RECURSIVE ComputeBBox(_, _, _, _)
RECURSIVE ComputeBBoxChildren(_, _, _, _, _)
ComputeBBoxChildren(c, node, transform, bbox, k) ==
    LET ch == Children(c, node)
    IN IF k > Len(ch) THEN bbox
       ELSE ComputeBBoxChildren(c, node, transform,
                                ComputeBBox(c, ch[k], transform, bbox), k + 1)

ComputeBBox(c, node, transform, bbox) ==
    LET t == NodeTransform(c, node, transform)
        ps == NodePositions(c, node)
        b1 == ExtendAll(bbox, [k \in 1..Len(ps) |-> TransformPoint(t, ps[k])])
    IN ComputeBBoxChildren(c, node, t, b1, 1)

-----------------------------------------------------------------------------
(* CameraData *)

CameraDataNew ==
    [center |-> <<0, 0, 0>>,
     cam_axis |-> Identity3,
     radius |-> 0,
     window_size |-> <<100, 100>>,
     scene_center |-> <<0, 0, 0>>,
     scene_radius |-> 10 * Scale]

\* a set_scene that rejects the negative radii only
SetSceneRejectsNegative(d, center, radius) ==
    IF FGt(0, radius)
    THEN [err |-> TRUE, data |-> d]
    ELSE [err |-> FALSE,
          data |-> [d EXCEPT !.scene_center = center, !.scene_radius = radius]]

SetScene(d, center, radius) ==
    IF FLe(radius, 0)
    THEN [err |-> TRUE, data |-> d]
    ELSE [err |-> FALSE,
          data |-> [d EXCEPT !.scene_center = center, !.scene_radius = radius]]

SetWindowSize(d, w, h) == [d EXCEPT !.window_size = <<w, h>>]
SetRadius(d, radius) == [d EXCEPT !.radius = radius]
SetCenter(d, center) == [d EXCEPT !.center = center]

SetRotatedCamAxis(d, axis, rot_mat) ==
    LET c0 == Normalize(MatVec(rot_mat, Column(axis, 1)))
        c1a == MatVec(rot_mat, Column(axis, 2))
        c1b == VSub(c1a, VScale(c0, Dot(c1a, c0)))
        c1 == Normalize(c1b)
        c2a == MatVec(rot_mat, Column(axis, 3))
        c2b == VSub(c2a, VScale(c0, Dot(c2a, c0)))
        c2c == VSub(c2b, VScale(c1, Dot(c2b, c1)))
        c2 == Normalize(c2c)
    IN [d EXCEPT !.cam_axis = <<c0, c1, c2>>]

\* Mat4 with f32 entries (a sequence of four rows) and the f32 matrix product
F4Entry(a, b, i, j) ==
    FAdd(FAdd(FAdd(FMul(a[i][1], b[1][j]), FMul(a[i][2], b[2][j])), FMul(a[i][3], b[3][j])),
         FMul(a[i][4], b[4][j]))
F4Row(a, b, i) == <<F4Entry(a, b, i, 1), F4Entry(a, b, i, 2), F4Entry(a, b, i, 3), F4Entry(a, b, i, 4)>>
F4Mul(a, b) == <<F4Row(a, b, 1), F4Row(a, b, 2), F4Row(a, b, 3), F4Row(a, b, 4)>>

\* a transform of the scene graph (whole entries) as f32 entries
AsF32Row(r) == <<Norm(r[1] * Scale), Norm(r[2] * Scale), Norm(r[3] * Scale), Norm(r[4] * Scale)>>
AsF32Mat(t) == <<AsF32Row(t[1]), AsF32Row(t[2]), AsF32Row(t[3]), AsF32Row(t[4])>>

Zero3 == <<<<0, 0, 0>>, <<0, 0, 0>>, <<0, 0, 0>>>>
Transpose3(m) ==
    <<<<At(m, 1, 1), At(m, 1, 2), At(m, 1, 3)>>,
      <<At(m, 2, 1), At(m, 2, 2), At(m, 2, 3)>>,
      <<At(m, 3, 1), At(m, 3, 2), At(m, 3, 3)>>>>
Mat3ToMat4(m) ==
    <<<<At(m, 1, 1), At(m, 1, 2), At(m, 1, 3), 0>>,
      <<At(m, 2, 1), At(m, 2, 2), At(m, 2, 3), 0>>,
      <<At(m, 3, 1), At(m, 3, 2), At(m, 3, 3), 0>>,
      <<0, 0, 0, Scale>>>>
Mat4ToMat3(m) ==
    <<<<m[1][1], m[2][1], m[3][1]>>, <<m[1][2], m[2][2], m[3][2]>>, <<m[1][3], m[2][3], m[3][3]>>>>
Translation(v) ==
    <<<<Scale, 0, 0, v[1]>>, <<0, Scale, 0, v[2]>>, <<0, 0, Scale, v[3]>>, <<0, 0, 0, Scale>>>>

\* glm::determinant of a Mat3, by the first row
Determinant3(m) ==
    LET minor_1 == FSub(FMul(At(m, 2, 2), At(m, 3, 3)), FMul(At(m, 3, 2), At(m, 2, 3)))
        minor_2 == FSub(FMul(At(m, 2, 1), At(m, 3, 3)), FMul(At(m, 3, 1), At(m, 2, 3)))
        minor_3 == FSub(FMul(At(m, 2, 1), At(m, 3, 2)), FMul(At(m, 3, 1), At(m, 2, 2)))
    IN FAdd(FSub(FMul(At(m, 1, 1), minor_1), FMul(At(m, 1, 2), minor_2)),
            FMul(At(m, 1, 3), minor_3))

\* the cofactor of entry (i, j), the indices running cyclically
Cyc(i) == ((i - 1) % 3) + 1
Cofactor(m, i, j) ==
    FSub(FMul(At(m, Cyc(i + 1), Cyc(j + 1)), At(m, Cyc(i + 2), Cyc(j + 2))),
         FMul(At(m, Cyc(i + 1), Cyc(j + 2)), At(m, Cyc(i + 2), Cyc(j + 1))))

\* glm::inverse: the adjugate over the determinant, the zero matrix when the
\* determinant is zero
Inverse3(m) ==
    LET d == Determinant3(m)
        col(j) == <<FDiv(Cofactor(m, j, 1), d), FDiv(Cofactor(m, j, 2), d),
                    FDiv(Cofactor(m, j, 3), d)>>
    IN IF d = 0 THEN Zero3 ELSE <<col(1), col(2), col(3)>>

\* glm::inverse_transpose
InverseTranspose3(m) == Transpose3(Inverse3(m))

\* d.abs() <= 1e-9; the threshold lies below the grid
Degenerate(d) == ~IsNaN(d) /\ Abs(d) <= 0

\* CameraData::get_model_matrix
GetModelMatrix(d) ==
    LET dir == Column(d.cam_axis, 3)
        factor == FExp(d.radius)
        cam_pos == VAdd(d.center, VScale(dir, factor))
        rot_mat == Mat3ToMat4(Transpose3(d.cam_axis))
        tmat == Translation(<<FNeg(cam_pos[1]), FNeg(cam_pos[2]), FNeg(cam_pos[3])>>)
    IN F4Mul(rot_mat, tmat)

\* mmat.row(2)
ModelMatrixRow2(d) == GetModelMatrix(d)[3]

\* the distance of the scene center in front of the camera
SceneDepth(d) ==
    LET row == ModelMatrixRow2(d)
    IN FNeg(FAdd(Dot(<<row[1], row[2], row[3]>>, d.scene_center), FMul(row[4], Scale)))

\* far * 1e-6 is below the grid: a plane is [v, micro], the value v plus micro
\* millionths, one of the two being zero
FarPlane(d) == FAdd(SceneDepth(d), FMul(d.scene_radius, 150))

\* (z - scene_radius).max(far * 1e-6)
NearPlane(d) ==
    LET far == FarPlane(d)
        a == FSub(SceneDepth(d), d.scene_radius)
    IN IF ~IsFin(far) THEN [v |-> FMaxOf(a, far), micro |-> 0]
       ELSE IF IsNaN(a) THEN [v |-> 0, micro |-> far]
       ELSE IF a > 0 \/ (a = 0 /\ far <= 0) THEN [v |-> a, micro |-> 0]
       ELSE [v |-> 0, micro |-> far]

\* 0 < near < far
PlanesOrdered(near, far) ==
    /\ ~IsNaN(near.v) /\ ~IsNaN(far)
    /\ near.v > 0 \/ (near.v = 0 /\ near.micro > 0)
    /\ IF near.micro = 0 THEN near.v < far ELSE far > 0

\* a normal matrix that inverts whatever the determinant is
GetNormalMatrixAlwaysInverse(d) == InverseTranspose3(Mat4ToMat3(GetModelMatrix(d)))

\* CameraData::get_normal_matrix
GetNormalMatrix(d) ==
    LET mat == Mat4ToMat3(GetModelMatrix(d))
        det == Determinant3(mat)
    IN IF Degenerate(det) THEN mat ELSE InverseTranspose3(mat)

-----------------------------------------------------------------------------
(* Camera: [data, mode, save_cursor, saved_data] *)

Modes == {"Nothing", "Zoom", "Move", "Rotate"}
Buttons == {"Left", "Right", "Middle", "Other"}

CameraNew ==
    [data |-> CameraDataNew,
     mode |-> "Nothing",
     save_cursor |-> <<0, 0>>,
     saved_data |-> CameraDataNew]

UpdateWindowSize(cam, w, h) == [cam EXCEPT !.data = SetWindowSize(@, w, h)]

\* Camera::set_radius stores the logarithm
CameraSetRadius(cam, radius) == [cam EXCEPT !.data = SetRadius(@, FLn(radius))]

\* glm::rotation(angle, axis): the rotation about the normalized axis; an
\* angle equal to zero gives the identity
Rotation(angle, axis) ==
    IF angle = 0 THEN Identity3
    ELSE LET u == Normalize(axis)
             sin == FSin(angle)
             cos == FCos(angle)
             omc == FSub(Scale, cos)
             sq(i) == FMul(u[i], u[i])
             diag(i) == FAdd(sq(i), FMul(FSub(Scale, sq(i)), cos))
             uu(i, j) == FMul(FMul(u[i], u[j]), omc)
             us(i) == FMul(u[i], sin)
         IN << <<diag(1), FAdd(uu(1, 2), us(3)), FSub(uu(1, 3), us(2))>>,
               <<FSub(uu(1, 2), us(3)), diag(2), FAdd(uu(2, 3), us(1))>>,
               <<FAdd(uu(1, 3), us(2)), FSub(uu(2, 3), us(1)), diag(3)>> >>

\* (new - saved) as f32 / (window size as f32)
Drift(new, saved, win) == FDiv(Norm(new - saved), U32AsF32(win))

\* a zoom recompute that moves the center along with the radius (a dolly)
ModifyDolly(cam, newx, newy) ==
    LET ydrift == Drift(newy, cam.save_cursor[2], cam.data.window_size[2])
        ydiff == FMul(ydrift, 2 * Scale)
    IN IF cam.mode = "Zoom"
       THEN [cam EXCEPT !.data = SetCenter(SetRadius(@, FAdd(cam.saved_data.radius, ydiff)),
                                            VAdd(cam.data.center, <<0, 0, ydiff>>))]
       ELSE cam

\* a pointer move that also ends the drag in progress
UpdateMouseMotionEndsDrag(cam, x, y) ==
    LET ydrift == Drift(y, cam.save_cursor[2], cam.data.window_size[2])
    IN IF cam.mode = "Zoom"
       THEN [cam EXCEPT !.data = SetRadius(@, FAdd(cam.saved_data.radius, FMul(ydrift, 2 * Scale))),
                        !.mode = "Nothing"]
       ELSE [cam EXCEPT !.mode = "Nothing"]

\* a recompute that adds the zoom drag to the live radius instead of the saved one
ModifyFromLive(cam, newx, newy) ==
    LET ydrift == Drift(newy, cam.save_cursor[2], cam.data.window_size[2])
    IN IF cam.mode = "Zoom"
       THEN [cam EXCEPT !.data = SetRadius(@, FAdd(cam.data.radius, FMul(ydrift, 2 * Scale)))]
       ELSE cam

Modify(cam, newx, newy) ==
    LET xdrift == Drift(newx, cam.save_cursor[1], cam.data.window_size[1])
        ydrift == Drift(newy, cam.save_cursor[2], cam.data.window_size[2])
    IN CASE cam.mode = "Zoom" ->
              LET ydiff == FMul(ydrift, 2 * Scale)
                  new_radius == FAdd(cam.saved_data.radius, ydiff)
              IN [cam EXCEPT !.data = SetRadius(@, new_radius)]
         [] cam.mode = "Move" ->
              LET cam_axis == cam.data.cam_axis
                  xaxis == Column(cam_axis, 1)
                  yaxis == Column(cam_axis, 2)
                  factor == FExp(cam.data.radius)
                  xd == FMul(FNeg(xdrift), factor)
                  yd == FMul(ydrift, factor)
                  new_center == VAdd(VAdd(cam.saved_data.center, VScale(xaxis, xd)),
                                     VScale(yaxis, yd))
              IN [cam EXCEPT !.data = SetCenter(@, new_center)]
         [] cam.mode = "Rotate" ->
              LET cam_axis == cam.saved_data.cam_axis
                  xrot_mat == Rotation(FMul(FNeg(xdrift), 250), Column(cam_axis, 2))
                  yrot_mat == Rotation(FMul(FNeg(ydrift), 250), Column(cam_axis, 1))
                  rot_mat == Mat3Mul(yrot_mat, xrot_mat)
              IN [cam EXCEPT !.data =
                      SetRotatedCamAxis(@, cam.saved_data.cam_axis, rot_mat)]
         [] OTHER -> cam

\* the button mapping with the right and middle buttons exchanged
ModeOfButtonSwapped(btn, mode) ==
    CASE btn = "Right" -> "Move"
      [] btn = "Middle" -> "Zoom"
      [] btn = "Left" -> "Rotate"
      [] OTHER -> mode

ModeOfButton(btn, mode) ==
    CASE btn = "Right" -> "Zoom"
      [] btn = "Middle" -> "Move"
      [] btn = "Left" -> "Rotate"
      [] OTHER -> mode

\* a release that puts the saved snapshot back instead of recomputing
UpdateMouseButtonReleaseRestores(cam, x, y, btn, pressed) ==
    IF pressed
    THEN [cam EXCEPT !.save_cursor = <<x, y>>,
                     !.saved_data = cam.data,
                     !.mode = ModeOfButton(btn, cam.mode)]
    ELSE [cam EXCEPT !.data = cam.saved_data, !.mode = "Nothing"]

\* a release that drops the mode without the final recompute
UpdateMouseButtonNoModify(cam, x, y, btn, pressed) ==
    IF pressed
    THEN [cam EXCEPT !.save_cursor = <<x, y>>,
                     !.saved_data = cam.data,
                     !.mode = ModeOfButton(btn, cam.mode)]
    ELSE [cam EXCEPT !.mode = "Nothing"]

UpdateMouseButton(cam, x, y, btn, pressed) ==
    IF pressed
    THEN [cam EXCEPT !.save_cursor = <<x, y>>,
                     !.saved_data = cam.data,
                     !.mode = ModeOfButton(btn, cam.mode)]
    ELSE [Modify(cam, x, y) EXCEPT !.mode = "Nothing"]

UpdateMouseMotion(cam, x, y) == Modify(cam, x, y)

\* a focus that also ends the drag in progress
FocusEndsDrag(cam, volume) ==
    LET c1 == CameraSetRadius(cam, FMul(Length(GetSize(volume)), 150))
        c2 == [c1 EXCEPT !.data = SetCenter(@, GetCenter(volume))]
        r == SetScene(c2.data, GetCenter(volume), FDiv(Length(GetSize(volume)), 2 * Scale))
    IN [err |-> r.err, cam |-> [c2 EXCEPT !.data = r.data, !.mode = "Nothing"]]

\* Camera::focus; the result is [err, cam]
Focus(cam, volume) ==
    LET center == GetCenter(volume)
        size == GetSize(volume)
        box_size == Length(size)
        c1 == CameraSetRadius(cam, FMul(box_size, 150))
        c2 == [c1 EXCEPT !.data = SetCenter(@, center)]
        scene_center == GetCenter(volume)
        scene_radius == FDiv(Length(GetSize(volume)), 2 * Scale)
        r == SetScene(c2.data, scene_center, scene_radius)
    IN [err |-> r.err, cam |-> [c2 EXCEPT !.data = r.data]]

-----------------------------------------------------------------------------
(* Renderer (the ViewerController) under Viewer::run *)

\* Renderer::compute_normal_matrix
ComputeNormalMatrix(m4) ==
    LET m == Mat4ToMat3(m4)
        d == Determinant3(m)
    IN IF Degenerate(d) THEN m ELSE Transpose3(Inverse3(m))


\* the size of the context Viewer::new hands to initialize
ConfigSize == <<100, 100>>

\* the inputs the environment delivers
WindowSizes == {<<0, 0>>, <<100, 100>>}
CursorCoords == {0, 63 * Scale}

\* Renderer::new: the scene volume is computed and the camera focused on it;
\* a failed focus panics (unwrap)
RendererNew ==
    /\ phase = "created"
    /\ LET volume == ComputeBBox(cad, RootNode, Identity4, BBoxNew)
           r == Focus(CameraNew, volume)
       IN /\ scene_volume' = volume
          /\ camera' = r.cam
          /\ phase' = IF r.err THEN "panicked" ELSE "constructed"
    /\ width' = 0
    /\ height' = 0
    /\ UNCHANGED <<shader, cursor_pos, nev>>
    /\ UNCHANGED gpu_vars
    /\ UNCHANGED ser_vars
    /\ UNCHANGED frame

\* an initialize whose error does not keep the event loop from starting
InitializeThenRunAnyway ==
    /\ phase = "constructed"
    /\ width' = ConfigSize[1]
    /\ height' = ConfigSize[2]
    /\ shader' = TRUE
    /\ LET r == AddCadDataResult(cad, failing, shapes, instances)
       IN /\ shapes' = r.shapes
          /\ instances' = r.instances
          /\ last_result' = IF r.err THEN "err" ELSE "ok"
    /\ phase' = "running"
    /\ ncalls' = ncalls + 1
    /\ UNCHANGED <<cad, failing, camera, scene_volume, cursor_pos, nev>>
    /\ UNCHANGED ser_vars
    /\ UNCHANGED frame

\* Renderer::initialize, called by Viewer::run before the event loop starts
Initialize ==
    /\ phase = "constructed"
    /\ width' = ConfigSize[1]
    /\ height' = ConfigSize[2]
    /\ shader' = TRUE
    /\ LET r == AddCadDataResult(cad, failing, shapes, instances)
       IN /\ shapes' = r.shapes
          /\ instances' = r.instances
          /\ last_result' = IF r.err THEN "err" ELSE "ok"
          /\ phase' = IF r.err THEN "failed" ELSE "running"
    /\ ncalls' = ncalls + 1
    /\ UNCHANGED <<cad, failing, camera, scene_volume, cursor_pos, nev>>
    /\ UNCHANGED ser_vars
    /\ UNCHANGED frame

\* WindowEvent::Resized -> Renderer::resize
Resize(w, h) ==
    /\ phase = "running" /\ nev < MaxEvents
    /\ width' = w
    /\ height' = h
    /\ nev' = nev + 1
    /\ UNCHANGED <<camera, scene_volume, shader, cursor_pos, phase>>
    /\ UNCHANGED gpu_vars
    /\ UNCHANGED ser_vars
    /\ UNCHANGED frame

\* the draw calls of instance k: one per part of its shape, in part order
PartCalls(k, shape) ==
    [m \in 1..Len(shape.parts) |->
        [instance |-> k, part |-> m,
         mesh |-> shape.parts[m].mesh, material |-> shape.parts[m].material]]

\* the loop over the instances in Renderer::draw; indexing the shape list out
\* of its bounds panics.  The result is [panic, calls]
RECURSIVE InstanceLoop(_, _, _)
InstanceLoop(insts, shps, k) ==
    IF k > Len(insts) THEN [panic |-> FALSE, calls |-> <<>>]
    ELSE IF insts[k].shape_index >= Len(shps) THEN [panic |-> TRUE, calls |-> <<>>]
    ELSE LET rest == InstanceLoop(insts, shps, k + 1)
         IN [panic |-> rest.panic,
             calls |-> PartCalls(k, shps[insts[k].shape_index + 1]) \o rest.calls]

\* a frame that draws each compiled shape once, for the first instance that uses it
DrawCallsOncePerShape(insts, shps) ==
    LET firsts == [k \in 1..Len(insts) |->
                      IF \E j \in 1..(k - 1) : insts[j].shape_index = insts[k].shape_index
                      THEN <<>> ELSE PartCalls(k, shps[insts[k].shape_index + 1])]
    IN [panic |-> FALSE, calls |-> ConcatAll(firsts)]

DrawCalls(insts, shps) == InstanceLoop(insts, shps, 1)

\* Event::RedrawRequested -> Renderer::draw; without a shader the frame is
\* abandoned before the camera update and the draw calls
Draw ==
    /\ phase = "running" /\ nev < MaxEvents
    /\ IF shader
       THEN LET r == DrawCalls(instances, shapes)
            IN /\ camera' = UpdateWindowSize(camera, width, height)
               /\ frame' = r.calls
               /\ phase' = IF r.panic THEN "panicked" ELSE phase
       ELSE /\ camera' = camera
            /\ frame' = <<>>
            /\ phase' = phase
    /\ nev' = nev + 1
    /\ UNCHANGED <<scene_volume, width, height, shader, cursor_pos>>
    /\ UNCHANGED gpu_vars
    /\ UNCHANGED ser_vars

\* WindowEvent::CursorMoved -> Renderer::cursor_move
CursorMoved(x, y) ==
    /\ phase = "running" /\ nev < MaxEvents
    /\ cursor_pos' = <<x, y>>
    /\ camera' = UpdateMouseMotion(camera, x, y)
    /\ nev' = nev + 1
    /\ UNCHANGED <<scene_volume, width, height, shader, phase>>
    /\ UNCHANGED gpu_vars
    /\ UNCHANGED ser_vars
    /\ UNCHANGED frame

\* WindowEvent::MouseInput -> Renderer::mouse_button, at the kept cursor position
MouseInput(btn, pressed) ==
    /\ phase = "running" /\ nev < MaxEvents
    /\ camera' = UpdateMouseButton(camera, cursor_pos[1], cursor_pos[2], btn, pressed)
    /\ nev' = nev + 1
    /\ UNCHANGED <<scene_volume, width, height, shader, cursor_pos, phase>>
    /\ UNCHANGED gpu_vars
    /\ UNCHANGED ser_vars
    /\ UNCHANGED frame

\* WindowEvent::KeyboardInput with key A pressed -> Camera::focus; an error is logged
KeyA ==
    /\ phase = "running" /\ nev < MaxEvents
    /\ camera' = Focus(camera, scene_volume).cam
    /\ nev' = nev + 1
    /\ UNCHANGED <<scene_volume, width, height, shader, cursor_pos, phase>>
    /\ UNCHANGED gpu_vars
    /\ UNCHANGED ser_vars
    /\ UNCHANGED frame

-----------------------------------------------------------------------------
GpuInit ==
    /\ shapes = <<>>
    /\ instances = <<>>
    /\ last_result = "none"
    /\ ncalls = 0

ViewInit ==
    /\ camera = CameraNew
    /\ scene_volume = BBoxNew
    /\ width = 0
    /\ height = 0
    /\ shader = FALSE
    /\ cursor_pos = <<0, 0>>
    /\ phase = "created"
    /\ nev = 0
    /\ frame = <<>>

SerInit ==
    /\ cam_data = CameraDataNew
    /\ json = None
    /\ cam_data2 = CameraDataNew
    /\ decode_result = "none"

\* the scene compiler alone: any number of add_cad_data calls on any scene graph
InitCompile ==
    /\ cad \in CadChoices
    /\ failing \in FailingChoices
    /\ GpuInit /\ ViewInit /\ SerInit

CompileNext == AddCadData

SpecCompile == InitCompile /\ [][CompileNext]_vars

\* the scene graphs of the viewer runs: a root alone, without a transform,
\* carrying no shape, shape 1 (a single vertex) or shape 2
ViewCadChoices ==
    {[parent |-> [n \in NodeIds |-> IF n = RootNode THEN 0 ELSE 1],
      transform |-> [n \in NodeIds |-> None],
      shapes |-> [n \in NodeIds |-> IF n = RootNode THEN refs ELSE <<>>]] :
        refs \in {<<>>, <<1>>, <<2>>}}

Init ==
    /\ cad \in ViewCadChoices
    /\ failing \in FailingChoices
    /\ GpuInit /\ ViewInit /\ SerInit

Next ==
    \/ RendererNew
    \/ Initialize
    \/ \E sz \in WindowSizes : Resize(sz[1], sz[2])
    \/ Draw
    \/ \E x, y \in CursorCoords : CursorMoved(x, y)
    \/ \E btn \in Buttons, pressed \in BOOLEAN : MouseInput(btn, pressed)
    \/ KeyA

\* the viewer: construction, initialization, then the event loop
Spec == Init /\ [][Next]_vars

-----------------------------------------------------------------------------
(* What the scene graph prescribes, computed from the tree alone *)

RECURSIVE PreOrder(_, _)
PreOrder(c, n) ==
    LET ch == Children(c, n)
    IN <<n>> \o ConcatAll([k \in 1..Len(ch) |-> PreOrder(c, ch[k])])

\* the shape references of the tree, [node, shape], node by node in pre-order
ExpectedRefs(c) ==
    LET po == PreOrder(c, RootNode)
    IN ConcatAll([k \in 1..Len(po) |->
           [m \in 1..Len(c.shapes[po[k]]) |->
               [node |-> po[k], shape |-> c.shapes[po[k]][m]]]])

RECURSIVE SumLen(_, _)
SumLen(c, S) ==
    IF S = {} THEN 0
    ELSE LET n == CHOOSE x \in S : TRUE
         IN Len(c.shapes[n]) + SumLen(c, S \ {n})

TotalRefs(c) == SumLen(c, NodeIds)

DistinctShapes(c) == UNION {{c.shapes[n][k] : k \in 1..Len(c.shapes[n])} : n \in NodeIds}

LocalTransform(c, n) == IF c.transform[n] # None THEN c.transform[n][1] ELSE Identity4

\* the product of the local transforms from the root down to n, root first
RECURSIVE PathProduct(_, _)
PathProduct(c, n) ==
    IF n = RootNode THEN LocalTransform(c, n)
    ELSE Mat4Mul(PathProduct(c, c.parent[n]), LocalTransform(c, n))

\* the reference that produced instance i when every call so far succeeded
RefOfInstance(c, i) ==
    LET refs == ExpectedRefs(c)
    IN refs[((i - 1) % Len(refs)) + 1]

-----------------------------------------------------------------------------
(* Claims about the scene compiler *)

\* C1: one add_cad_data call on an empty GPUData creates exactly one compiled
\* shape per distinct shape identity of the tree, and instances of the same
\* identity carry the same shape index.
C1_OneShapePerIdentity ==
    (ncalls = 1 /\ last_result = "ok") =>
        /\ Len(shapes) = Cardinality(DistinctShapes(cad))
        /\ \A i, j \in 1..Len(instances) :
              RefOfInstance(cad, i).shape = RefOfInstance(cad, j).shape
                  => instances[i].shape_index = instances[j].shape_index

\* C2: after any add_cad_data call (successful or failed, any number of calls)
\* every instance's shape_index is a valid index into the shape list.
C2_ShapeIndexValid ==
    \A i \in 1..Len(instances) :
        instances[i].shape_index >= 0 /\ instances[i].shape_index < Len(shapes)

C2_Witness ==
    ncalls = 2 /\ last_result = "err" /\ Len(instances) >= 4 /\ Len(shapes) >= 4

\* C3: a successful add_cad_data call appends as many instances as the tree
\* holds shape references, shared identities counted once per reference.
C3_InstanceCount ==
    [][(ncalls' = ncalls + 1 /\ last_result' = "ok")
          => Len(instances') = Len(instances) + TotalRefs(cad)]_vars

C3_Witness ==
    /\ ncalls = 2 /\ last_result = "ok" /\ Len(instances) = 8
    /\ \E n, m \in NodeIds : n # m /\ cad.shapes[n] = <<1, 2>> /\ cad.shapes[m] = <<1, 2>>

\* C4: the transform of every instance is the product of the local transforms
\* on the path from the root to its node, root first, a node without a
\* transform contributing the identity.
C4_TransformIsPathProduct ==
    last_result = "ok" =>
        \A i \in 1..Len(instances) :
            instances[i].transform = PathProduct(cad, RefOfInstance(cad, i).node)

C4_Witness ==
    /\ last_result = "ok"
    /\ cad.parent[3] = 2
    /\ cad.transform = (1 :> Some(TransA)) @@ (2 :> Some(TransB)) @@ (3 :> None)
                           @@ [n \in NodeIds \ {1, 2, 3} |-> None]
    /\ cad.shapes[3] # <<>>
    /\ \E i \in 1..Len(instances) :
          /\ RefOfInstance(cad, i).node = 3
          /\ instances[i].transform = Mat4Mul(TransA, TransB)
          /\ instances[i].transform # Mat4Mul(TransB, TransA)

\* a reference to sid fails when the GPU mesh of one of its parts cannot be created
ShapeFails(sid, fl) == \E k \in 1..Len(ShapeParts(sid)) : ShapeParts(sid)[k].mesh \in fl

\* the positions, in traversal order, of the references whose shape fails
FailingRefs(c, fl) ==
    {k \in 1..Len(ExpectedRefs(c)) : ShapeFails(ExpectedRefs(c)[k].shape, fl)}

FirstOf(S) == CHOOSE k \in S : \A j \in S : k <= j

\* C16: when mesh creation fails for a part of a shape, add_cad_data returns an
\* error and the traversal stops there: the call appends the instances (and
\* shapes) of the references before the first failing one, in order, none for
\* the failing reference and none for anything after it; without a failing
\* reference the call succeeds.
C16_ErrorStopsTraversal ==
    [][ncalls' = ncalls + 1 =>
          LET refs == ExpectedRefs(cad)
              bad == FailingRefs(cad, failing)
              done == IF bad = {} THEN Len(refs) ELSE FirstOf(bad) - 1
          IN /\ last_result' = (IF bad = {} THEN "ok" ELSE "err")
             /\ Len(instances') = Len(instances) + done
             /\ Len(shapes') = Len(shapes) + done
             /\ SubSeq(instances', 1, Len(instances)) = instances
             /\ \A i \in 1..done :
                   instances'[Len(instances) + i].transform = PathProduct(cad, refs[i].node)]_vars

\* a failed call that had compiled two references and left references behind
\* the failing one unprocessed
C16_Witness ==
    /\ ncalls = 1 /\ last_result = "err"
    /\ Len(instances) = 2
    /\ FailingRefs(cad, failing) # {}
    /\ FirstOf(FailingRefs(cad, failing)) = 3
    /\ Len(ExpectedRefs(cad)) > 3

-----------------------------------------------------------------------------
(* Claims about the camera *)

SizeIsZero(b) == b.min = b.max /\ IsFin(b.min[1]) /\ IsFin(b.min[2]) /\ IsFin(b.min[3])

\* C5: Camera::focus on a volume of size zero (a single-point scene) returns an
\* error and leaves every field of the camera state as it was.  Renderer::new
\* calls focus on a fresh camera and panics on the error.
C5_FocusZeroSizeLeavesCamera ==
    (phase # "created" /\ SizeIsZero(scene_volume)) =>
        (phase = "panicked" /\ camera.data = CameraDataNew)

\* C6: Camera::focus on an empty volume (BBox::new, never extended) fails with
\* an error: Renderer::new, which unwraps the result, does not get past it.
C6_FocusEmptyVolumeFails ==
    (phase # "created" /\ scene_volume = BBoxNew) => phase = "panicked"

\* the camera after a press of btn and a release, both at the cursor position
NullDrag(cam, btn) ==
    UpdateMouseButton(UpdateMouseButton(cam, cursor_pos[1], cursor_pos[2], btn, TRUE),
                      cursor_pos[1], cursor_pos[2], btn, FALSE)

FiniteVec(v) == IsFin(v[1]) /\ IsFin(v[2]) /\ IsFin(v[3])

\* C7: in each of the modes Zooming, Panning and Rotating, a press followed at
\* once by a release at the same cursor position leaves radius, center and axis
\* as they were before the press (the camera holding finite numbers before it).
C7_NullDragChangesNothing ==
    (/\ phase = "running"
     /\ IsFin(camera.data.radius)
     /\ FiniteVec(camera.data.center)
     /\ \A j \in 1..3 : FiniteVec(camera.data.cam_axis[j]))
    => \A btn \in {"Left", "Right", "Middle"} :
          /\ NullDrag(camera, btn).data.radius = camera.data.radius
          /\ NullDrag(camera, btn).data.center = camera.data.center
          /\ NullDrag(camera, btn).data.cam_axis = camera.data.cam_axis

\* C8: from Idle, a press of the right button enters Zooming, of the middle
\* button Panning, of the left button Rotating; the saved snapshot then equals
\* the live camera state and the saved cursor the press position.
C8_PressFromIdle ==
    [][\A btn \in {"Left", "Right", "Middle"} :
          (MouseInput(btn, TRUE) /\ camera.mode = "Nothing") =>
              /\ camera'.mode = (CASE btn = "Right" -> "Zoom"
                                   [] btn = "Middle" -> "Move"
                                   [] btn = "Left" -> "Rotate")
              /\ camera'.data = camera.data
              /\ camera'.saved_data = camera'.data
              /\ camera'.save_cursor = cursor_pos]_vars

C8_Witness ==
    /\ camera.mode = "Move"
    /\ camera.saved_data = camera.data
    /\ camera.save_cursor = cursor_pos
    /\ cursor_pos = <<63 * Scale, 63 * Scale>>
    /\ camera.data.radius # 0

\* C9: a press of a button other than left, right or middle is ignored in
\* every mode: mode, saved snapshot, saved cursor and live state stay as they are.
C9_OtherButtonIgnored ==
    [][MouseInput("Other", TRUE) => camera' = camera]_vars

\* C10: a button release applies one final recompute at the release cursor
\* position and then sets the mode to Idle; after any release the mode is Idle.
C10_ReleaseRecomputesThenIdle ==
    [][(\E btn \in Buttons : MouseInput(btn, FALSE)) =>
          /\ camera'.mode = "Nothing"
          /\ camera'.data = Modify(camera, cursor_pos[1], cursor_pos[2]).data
          /\ camera'.saved_data = camera.saved_data
          /\ camera'.save_cursor = camera.save_cursor]_vars

C10_Witness ==
    /\ camera.mode = "Nothing"
    /\ camera.save_cursor = <<0, 0>>
    /\ cursor_pos = <<0, 63 * Scale>>
    /\ IsFin(camera.saved_data.radius)
    /\ camera.data.radius = camera.saved_data.radius + 126
    /\ width = 100 /\ height = 100

\* the viewer receiving pointer events only (moves, presses and releases)
NextDrag ==
    \/ RendererNew
    \/ Initialize
    \/ \E x, y \in CursorCoords : CursorMoved(x, y)
    \/ \E btn \in Buttons, pressed \in BOOLEAN : MouseInput(btn, pressed)

SpecDrag == Init /\ [][NextDrag]_vars

\* the camera a single pointer move to (x, y) leaves when the live state is the
\* saved snapshot
SingleMove(cam, x, y) == Modify([cam EXCEPT !.data = cam.saved_data], x, y)

\* C11: during a drag, a pointer move never alters the saved snapshot, the saved
\* cursor or the mode, and the live radius, center and axis after it are what a
\* single move from the press-time snapshot to the latest cursor position gives,
\* whatever moves came before.
C11_MovesDependOnSnapshotOnly ==
    [][\A x, y \in CursorCoords :
          (camera.mode # "Nothing" /\ CursorMoved(x, y)) =>
              /\ camera'.saved_data = camera.saved_data
              /\ camera'.save_cursor = camera.save_cursor
              /\ camera'.mode = camera.mode
              /\ camera'.data.radius = SingleMove(camera, x, y).data.radius
              /\ camera'.data.center = SingleMove(camera, x, y).data.center
              /\ camera'.data.cam_axis = SingleMove(camera, x, y).data.cam_axis]_vars

\* a zoom drag that went to one position and came back to another
C11_Witness ==
    /\ camera.mode = "Zoom"
    /\ camera.save_cursor = <<63 * Scale, 0>>
    /\ cursor_pos = <<0, 63 * Scale>>
    /\ IsFin(camera.saved_data.radius)
    /\ camera.data.radius = camera.saved_data.radius + 126
    /\ camera.data.center = camera.saved_data.center

\* the pan the snapshot prescribes: saved center, saved axis, factor exp(saved radius)
SnapshotPan(cam, x, y) ==
    LET xdrift == Drift(x, cam.save_cursor[1], cam.data.window_size[1])
        ydrift == Drift(y, cam.save_cursor[2], cam.data.window_size[2])
        factor == FExp(cam.saved_data.radius)
        right == Column(cam.saved_data.cam_axis, 1)
        up == Column(cam.saved_data.cam_axis, 2)
    IN VAdd(VAdd(cam.saved_data.center, VScale(right, FMul(FNeg(xdrift), factor))),
            VScale(up, FMul(ydrift, factor)))

\* C12: while Panning, every pointer move sets the center to saved center +
\* right * (-drift_x * factor) + up * (drift_y * factor), with factor = exp(saved
\* radius) and right/up the columns of the saved axis, whatever was processed
\* since the press (focus on key A, window-size update).
C12_PanFromSnapshot ==
    [][\A x, y \in CursorCoords :
          (camera.mode = "Move" /\ CursorMoved(x, y)) =>
              camera'.data.center = SnapshotPan(camera, x, y)]_vars

-----------------------------------------------------------------------------
(* Serialization of CameraData (serde_json over SerializedCameraData) *)

\* the decimal digits of a natural number, most significant first
RECURSIVE DigitsOf(_)
DigitsOf(n) == IF n < 10 THEN <<n>> ELSE DigitsOf(n \div 10) \o <<n % 10>>

RECURSIVE ValueOf(_)
ValueOf(ds) == IF ds = <<>> THEN 0 ELSE 10 * ValueOf(SubSeq(ds, 1, Len(ds) - 1)) + ds[Len(ds)]

\* serde_json writes a finite f32 as the shortest decimal that reads back as the
\* same f32, and NaN and the infinities as null
FormatF32(v) ==
    IF IsFin(v) THEN [null |-> FALSE, neg |-> v < 0, digits |-> DigitsOf(Abs(v))]
    ELSE [null |-> TRUE, neg |-> FALSE, digits |-> <<>>]

\* serde_json reads a number into an f32; null is not an f32
ParseF32(tok) ==
    IF tok.null THEN [err |-> TRUE, value |-> 0]
    ELSE [err |-> FALSE, value |-> IF tok.neg THEN -ValueOf(tok.digits) ELSE ValueOf(tok.digits)]

\* Mat3::as_slice / copy_from_slice: the nine entries, column by column
AsSlice(m) == m[1] \o m[2] \o m[3]
FromSlice(f) == <<SubSeq(f, 1, 3), SubSeq(f, 4, 6), SubSeq(f, 7, 9)>>

FormatAll(f) == [k \in 1..Len(f) |-> FormatF32(f[k])]
ParseAll(toks) == [k \in 1..Len(toks) |-> ParseF32(toks[k]).value]
AnyNull(toks) == \E k \in 1..Len(toks) : ParseF32(toks[k]).err

\* CameraData::to_string: the fields of SerializedCameraData
CameraDataToString(d) ==
    [center |-> FormatAll(d.center),
     cam_axis |-> FormatAll(AsSlice(d.cam_axis)),
     radius |-> FormatF32(d.radius)]

\* serde_json::from_str::<SerializedCameraData> fails: an array that has not
\* the length of its field ([f32; 3], [f32; 9]), or a value that is no number
FromStrFails(text) ==
    \/ Len(text.center) # 3 \/ Len(text.cam_axis) # 9
    \/ AnyNull(text.center) \/ AnyNull(text.cam_axis) \/ ParseF32(text.radius).err

\* a decoder that assigns each field as soon as it is decoded
SetFromStringFieldByField(d, text) ==
    LET rok == ~ParseF32(text.radius).err
        cok == rok /\ Len(text.center) = 3 /\ ~AnyNull(text.center)
        aok == cok /\ Len(text.cam_axis) = 9 /\ ~AnyNull(text.cam_axis)
        d1 == IF rok THEN [d EXCEPT !.radius = ParseF32(text.radius).value] ELSE d
        d2 == IF cok THEN [d1 EXCEPT !.center = ParseAll(text.center)] ELSE d1
        d3 == IF aok THEN [d2 EXCEPT !.cam_axis = FromSlice(ParseAll(text.cam_axis))] ELSE d2
    IN [err |-> ~aok, data |-> d3]

\* a decoder that builds a new CameraData around the decoded fields
SetFromStringFresh(d, text) ==
    IF FromStrFails(text)
    THEN [err |-> TRUE, data |-> d]
    ELSE [err |-> FALSE,
          data |-> [CameraDataNew EXCEPT !.radius = ParseF32(text.radius).value,
                                         !.center = ParseAll(text.center),
                                         !.cam_axis = FromSlice(ParseAll(text.cam_axis))]]

\* CameraData::set_from_string; the result is [err, data]
SetFromString(d, text) ==
    IF FromStrFails(text)
    THEN [err |-> TRUE, data |-> d]
    ELSE [err |-> FALSE,
          data |-> [d EXCEPT !.radius = ParseF32(text.radius).value,
                             !.center = ParseAll(text.center),
                             !.cam_axis = FromSlice(ParseAll(text.cam_axis))]]

\* the axis of test_serialization (not orthonormal)
TestAxis == <<<<0, 0, Scale>>, <<Scale, 0, 0>>, <<Scale, 0, 0>>>>

SerialRadii == {0, 42 * Scale, -150, PInf, NInf, NaN}
SerialCenters ==
    {<<Scale, 2 * Scale, 3 * Scale>>, <<0, 0, 0>>, <<NaN, -FMax, 7>>, <<0, 0, -20 * Scale>>}
SerialAxes == {Identity3, TestAxis, <<<<PInf, 0, 0>>, <<0, -1, 0>>, <<0, 0, Scale>>>>}

\* the camera states decoded into: a new one, and one that was focused on a
\* scene and given another window size
Receivers ==
    {CameraDataNew,
     SetWindowSize(SetScene(SetRadius(CameraDataNew, 144), <<Scale, Scale, 0>>, 141).data,
                   200, 150)}

ToStringStep ==
    /\ json = None
    /\ json' = Some(CameraDataToString(cam_data))
    /\ UNCHANGED <<cam_data, cam_data2, decode_result>>
    /\ UNCHANGED <<gpu_vars, view_vars>>

SetFromStringStep ==
    /\ json # None /\ decode_result = "none"
    /\ LET r == SetFromString(cam_data2, json[1])
       IN /\ cam_data2' = r.data
          /\ decode_result' = IF r.err THEN "err" ELSE "ok"
    /\ UNCHANGED <<cam_data, json>>
    /\ UNCHANGED <<gpu_vars, view_vars>>

InitSerial ==
    /\ cad \in {c \in ViewCadChoices : c.shapes[RootNode] = <<>>}
    /\ failing = {}
    /\ GpuInit /\ ViewInit
    /\ cam_data \in {[CameraDataNew EXCEPT !.radius = r, !.center = c, !.cam_axis = m] :
                         r \in SerialRadii, c \in SerialCenters, m \in SerialAxes}
    /\ json = None
    /\ cam_data2 \in Receivers
    /\ decode_result = "none"

NextSerial == ToStringStep \/ SetFromStringStep

\* a camera state encoded with to_string and decoded with set_from_string
SpecSerial == InitSerial /\ [][NextSerial]_vars

\* C13: whatever radius, center and axis a camera state holds, encoding it with
\* to_string and decoding the text with set_from_string yields exactly that
\* radius, center and axis.
C13_RoundTrip ==
    (json # None /\ decode_result # "none") =>
        /\ decode_result = "ok"
        /\ cam_data2.radius = cam_data.radius
        /\ cam_data2.center = cam_data.center
        /\ cam_data2.cam_axis = cam_data.cam_axis

\* C14: a successful set_from_string changes only radius, center and axis;
\* window size, scene center and scene radius of the receiver stay as they were.
C14_DecodeKeepsSessionFields ==
    [][(SetFromStringStep /\ decode_result' = "ok") =>
          /\ cam_data2'.window_size = cam_data2.window_size
          /\ cam_data2'.scene_center = cam_data2.scene_center
          /\ cam_data2'.scene_radius = cam_data2.scene_radius]_vars

C14_Witness ==
    /\ decode_result = "ok"
    /\ cam_data2.radius = 42 * Scale /\ cam_data2.cam_axis = TestAxis
    /\ cam_data2.window_size = <<200, 150>>
    /\ cam_data2.scene_radius = 141

-----------------------------------------------------------------------------
(* Claims about the start of the viewer *)

\* C15: no draw call is issued before scene compilation has completed
\* successfully: whenever draw runs, initialize has created the shader and its
\* one add_cad_data call returned Ok, so the instance list is complete.
C15_NoDrawBeforeCompile ==
    [][Draw => /\ ncalls = 1 /\ last_result = "ok" /\ shader
               /\ Len(instances) = TotalRefs(cad)]_vars

\* a draw has run (only draw hands the camera a window size of 0) on a compiled scene
C15_Witness ==
    /\ camera.data.window_size = <<0, 0>>
    /\ last_result = "ok"
    /\ Len(instances) = 1

-----------------------------------------------------------------------------
(* The bounding volume on its own: a new BBox extended by points and volumes *)

BoxPoints ==
    {<<0, 0, 0>>, <<-Scale, 0, 0>>, <<Scale, 0, 0>>, <<0, -Scale, 0>>, <<0, Scale, 0>>,
     <<0, 0, -Scale>>, <<0, 0, Scale>>, <<NaN, NaN, NaN>>, <<NaN, 2 * Scale, 0>>,
     <<PInf, 0, 0>>}

BoxVolumes ==
    {BBoxNew,
     [min |-> <<0, 0, 0>>, max |-> <<2 * Scale, 2 * Scale, 0>>],
     [min |-> <<NaN, 0, 0>>, max |-> <<Scale, Scale, Scale>>]}

ExtendPosStep(p) ==
    /\ scene_volume' = ExtendPos(scene_volume, p)
    /\ UNCHANGED <<camera, width, height, shader, cursor_pos, phase, nev>>
    /\ UNCHANGED <<gpu_vars, ser_vars>>
    /\ UNCHANGED frame

ExtendBBoxStep(rhs) ==
    /\ scene_volume' = ExtendBBox(scene_volume, rhs)
    /\ UNCHANGED <<camera, width, height, shader, cursor_pos, phase, nev>>
    /\ UNCHANGED <<gpu_vars, ser_vars>>
    /\ UNCHANGED frame

InitBBox ==
    /\ cad \in {c \in ViewCadChoices : c.shapes[RootNode] = <<>>}
    /\ failing = {}
    /\ GpuInit /\ ViewInit /\ SerInit

NextBBox ==
    \/ \E p \in BoxPoints : ExtendPosStep(p)
    \/ \E rhs \in BoxVolumes : ExtendBBoxStep(rhs)

SpecBBox == InitBBox /\ [][NextBBox]_vars

NoNaN(p) == ~IsNaN(p[1]) /\ ~IsNaN(p[2]) /\ ~IsNaN(p[3])

\* a volume with min <= max on every axis
Proper(b) == FLe(b.min[1], b.max[1]) /\ FLe(b.min[2], b.max[2]) /\ FLe(b.min[3], b.max[3])

\* C17 as stated: is_empty is true for a new volume and false after any extend
\* operation, extend_pos with any point or extend_bbox with any volume.
C17_AnyExtendMakesNonEmpty ==
    /\ IsEmpty(BBoxNew)
    /\ \A p \in BoxPoints : ~IsEmpty(ExtendPos(scene_volume, p))
    /\ \A rhs \in BoxVolumes : ~IsEmpty(ExtendBBox(scene_volume, rhs))

\* C17 amended: is_empty is true for a new volume, false after extend_pos with a
\* point that has no NaN coordinate and after extend_bbox with a volume whose
\* min <= max on every axis.
C17_ProperExtendMakesNonEmpty ==
    /\ IsEmpty(BBoxNew)
    /\ \A p \in BoxPoints : NoNaN(p) => ~IsEmpty(ExtendPos(scene_volume, p))
    /\ \A rhs \in BoxVolumes : Proper(rhs) => ~IsEmpty(ExtendBBox(scene_volume, rhs))

\* a volume that two points made flat on one axis
C17_Witness ==
    /\ scene_volume = [min |-> <<-Scale, 0, 0>>, max |-> <<0, Scale, 0>>]
    /\ ~IsEmpty(scene_volume)

\* C18: the final min and max do not depend on the order of the extend calls:
\* from a new volume, any extend followed by any other gives what the two give in
\* the opposite order (so every permutation of a series of extends gives the same).
C18_ExtendOrderIrrelevant ==
    /\ \A p, q \in BoxPoints :
          ExtendPos(ExtendPos(scene_volume, p), q) = ExtendPos(ExtendPos(scene_volume, q), p)
    /\ \A p \in BoxPoints : \A rhs \in BoxVolumes :
          ExtendBBox(ExtendPos(scene_volume, p), rhs) = ExtendPos(ExtendBBox(scene_volume, rhs), p)
    /\ \A r1, r2 \in BoxVolumes :
          ExtendBBox(ExtendBBox(scene_volume, r1), r2) = ExtendBBox(ExtendBBox(scene_volume, r2), r1)

C18_Witness ==
    scene_volume = [min |-> <<-Scale, -Scale, 0>>, max |-> <<PInf, 2 * Scale, Scale>>]

LeVec(u, v) == FLe(u[1], v[1]) /\ FLe(u[2], v[2]) /\ FLe(u[3], v[3])

\* C19: every extend is monotonic (no component of min grows, no component of
\* max shrinks) and extending again with the same point or volume changes nothing.
C19_ExtendMonotonicIdempotent ==
    [][/\ \A p \in BoxPoints : ExtendPosStep(p) =>
             /\ LeVec(scene_volume'.min, scene_volume.min)
             /\ LeVec(scene_volume.max, scene_volume'.max)
             /\ ExtendPos(scene_volume', p) = scene_volume'
       /\ \A rhs \in BoxVolumes : ExtendBBoxStep(rhs) =>
             /\ LeVec(scene_volume'.min, scene_volume.min)
             /\ LeVec(scene_volume.max, scene_volume'.max)
             /\ ExtendBBox(scene_volume', rhs) = scene_volume']_vars

C19_Witness ==
    scene_volume = [min |-> <<0, -Scale, -Scale>>, max |-> <<2 * Scale, 2 * Scale, Scale>>]

-----------------------------------------------------------------------------
(* Rotation orthonormality *)

\* equal within the tolerance of the arithmetic (two units of the last place of a
\* product of normalised vectors); never true of NaN or an infinity
Near(a, b) == IsFin(a) /\ IsFin(b) /\ Abs(a - b) <= 2

Orthonormal(m) ==
    /\ \A j \in 1..3 : Near(Dot(Column(m, j), Column(m, j)), Scale)
    /\ Near(Dot(Column(m, 1), Column(m, 2)), 0)
    /\ Near(Dot(Column(m, 1), Column(m, 3)), 0)
    /\ Near(Dot(Column(m, 2), Column(m, 3)), 0)

\* C20: after any sequence of Rotate drags from the orthonormal initial axis, with
\* drifts of any magnitude, the columns of the axis are pairwise orthogonal and of
\* unit length within tolerance.
C20_RotateKeepsOrthonormal == Orthonormal(camera.data.cam_axis)

-----------------------------------------------------------------------------
(* Claims about the matrices *)

\* C21: for every camera state that focus, zoom, pan, rotate and decode can
\* leave, the clipping planes handed to the perspective matrix satisfy
\* 0 < near < far.
C21_ClipPlanesOrdered ==
    decode_result = "ok" => PlanesOrdered(NearPlane(cam_data2), FarPlane(cam_data2))

\* the cofactors of m over its determinant: the inverse-transpose
CofactorsOverDet(m) ==
    LET d == Determinant3(m)
        col(j) == <<FDiv(Cofactor(m, 1, j), d), FDiv(Cofactor(m, 2, j), d),
                    FDiv(Cofactor(m, 3, j), d)>>
    IN <<col(1), col(2), col(3)>>

\* the rule of the normal matrix: the input when |det| <= 1e-9, else its
\* inverse-transpose
NormalRule(m) == IF Degenerate(Determinant3(m)) THEN m ELSE CofactorsOverDet(m)

\* the instance transforms the scene graphs of the model produce
InstanceTransforms == {Identity4, TransA, TransB, Mat4Mul(TransA, TransB)}

\* C22: the normal matrix is the 3x3 input unchanged when the absolute value of
\* its determinant is at most 1e-9 and the inverse-transpose otherwise, in
\* CameraData::get_normal_matrix and in Renderer::compute_normal_matrix alike.
C22_NormalMatrixRule ==
    \A d \in {cam_data, cam_data2} :
        LET mv == GetModelMatrix(d)
        IN /\ GetNormalMatrix(d) = NormalRule(Mat4ToMat3(mv))
           /\ ComputeNormalMatrix(mv) = GetNormalMatrix(d)
           /\ \A t \in InstanceTransforms :
                 ComputeNormalMatrix(F4Mul(mv, AsF32Mat(t)))
                     = NormalRule(Mat4ToMat3(F4Mul(mv, AsF32Mat(t))))

\* a camera with the singular test axis next to one with the identity axis
C22_Witness ==
    /\ json # None
    /\ cam_data.cam_axis = TestAxis /\ IsFin(cam_data.radius) /\ FiniteVec(cam_data.center)
    /\ Determinant3(Mat4ToMat3(GetModelMatrix(cam_data))) = 0
    /\ GetNormalMatrix(cam_data) = Transpose3(TestAxis)
    /\ cam_data2.cam_axis = Identity3
    /\ GetNormalMatrix(cam_data2) = Identity3
    /\ ComputeNormalMatrix(F4Mul(GetModelMatrix(cam_data2), AsF32Mat(TransB)))
           = Mat4ToMat3(AsF32Mat(TransB))

-----------------------------------------------------------------------------
(* The frames of the viewer: construction, initialization and redraws, on   *)
(* every scene graph                                                        *)

\* the scene graphs of the frames: every tree over NodeIds, without transforms,
\* each node carrying no shape, the two-part shape 2, or both shapes in either
\* order
FrameRefChoices == {<<>>, <<2>>, <<1, 2>>, <<2, 1>>}
FrameCadChoices ==
    {c \in [parent : {p \in [NodeIds -> 0..MaxNodes] :
                         /\ p[RootNode] = 0
                         /\ \A n \in NodeIds \ {RootNode} : p[n] \in 1..(n - 1)},
            transform : {[n \in NodeIds |-> None]},
            shapes : [NodeIds -> FrameRefChoices]] : TRUE}

InitFrame ==
    /\ cad \in FrameCadChoices
    /\ failing = {}
    /\ GpuInit /\ ViewInit /\ SerInit

NextFrame == RendererNew \/ Initialize \/ Draw

SpecFrame == InitFrame /\ [][NextFrame]_vars

\* the compiled shape instance k is drawn with
ShapeOfInstance(k) == shapes[instances[k].shape_index + 1]

\* C23: each frame, draw issues the draw calls of every instance exactly once,
\* in the order of the instance list, and for each instance one call per part
\* of the compiled shape at its shape_index, in part order.
C23_DrawEveryInstanceInOrder ==
    [][Draw =>
          /\ \A k \in 1..Len(instances) : \A m \in 1..Len(ShapeOfInstance(k).parts) :
                Cardinality({p \in 1..Len(frame') :
                                frame'[p].instance = k /\ frame'[p].part = m}) = 1
          /\ \A p \in 1..Len(frame') :
                /\ frame'[p].instance \in 1..Len(instances)
                /\ frame'[p].part \in 1..Len(ShapeOfInstance(frame'[p].instance).parts)
                /\ frame'[p].mesh =
                       ShapeOfInstance(frame'[p].instance).parts[frame'[p].part].mesh
                /\ frame'[p].material =
                       ShapeOfInstance(frame'[p].instance).parts[frame'[p].part].material
          /\ \A p, q \in 1..Len(frame') :
                p < q => \/ frame'[p].instance < frame'[q].instance
                         \/ /\ frame'[p].instance = frame'[q].instance
                            /\ frame'[p].part < frame'[q].part]_vars

\* a frame of three instances of a two-part shape
C23_Witness ==
    /\ phase = "running"
    /\ Len(instances) = 3 /\ Len(frame) = 6
    /\ frame[5].instance = 3 /\ frame[5].part = 1
    /\ frame[6].instance = 3 /\ frame[6].part = 2 /\ frame[6].mesh = <<2, 2>>

-----------------------------------------------------------------------------
(* Claims about focus and the drags *)

\* C24: a successful focus on a volume sets the camera center and the scene
\* center to the center of the volume, the scene radius to half the length of its
\* size and the stored radius to the logarithm of 1.5 times that length; axis,
\* window size, mode, saved snapshot and saved cursor stay as they were.
C24_FocusSetsFraming ==
    [][(KeyA /\ ~Focus(camera, scene_volume).err) =>
          LET len == Length(GetSize(scene_volume))
          IN /\ camera'.data.center = GetCenter(scene_volume)
             /\ camera'.data.scene_center = GetCenter(scene_volume)
             /\ camera'.data.scene_radius = FDiv(len, 2 * Scale)
             /\ camera'.data.radius = FLn(FMul(len, 150))
             /\ camera'.data.cam_axis = camera.data.cam_axis
             /\ camera'.data.window_size = camera.data.window_size
             /\ camera'.mode = camera.mode
             /\ camera'.saved_data = camera.saved_data
             /\ camera'.save_cursor = camera.save_cursor]_vars

\* a focus in the middle of a zoom drag: the radius is back at the focused
\* value although the cursor is away from the press position
C24_Witness ==
    /\ camera.mode = "Zoom"
    /\ camera.save_cursor = <<0, 0>> /\ cursor_pos = <<0, 63 * Scale>>
    /\ camera.data.window_size = <<100, 100>>
    /\ IsFin(camera.data.radius) /\ camera.data.radius = camera.saved_data.radius
    /\ camera.data.center = GetCenter(scene_volume)
    /\ camera.data.scene_radius = FDiv(Length(GetSize(scene_volume)), 2 * Scale)

-----------------------------------------------------------------------------
(* More claims about the scene compiler *)

\* the traversal state an add_cad_data call starts from
TraversalStart == [shapes |-> shapes, instances |-> instances, shape_map |-> <<>>, err |-> FALSE]

\* C25: when get_shape_index misses and creates a compiled shape, the map holds
\* identity -> new index when it returns, so the next lookup of that identity in
\* the same traversal hits and creates nothing.
C25_MissRecordsIndex ==
    \A sid \in ShapeIds :
        LET r == GetShapeIndex(TraversalStart, sid, failing)
        IN ~r.err =>
              /\ sid \in DOMAIN r.st.shape_map
              /\ r.st.shape_map[sid] = r.index
              /\ GetShapeIndex(r.st, sid, failing).st.shapes = r.st.shapes

\* C26: after any number of successful add_cad_data calls, the shape_index of
\* every instance designates the compiled shape built from the shape its node
\* references.
C26_IndexDesignatesShape ==
    last_result = "ok" =>
        \A i \in 1..Len(instances) :
            /\ instances[i].shape_index < Len(shapes)
            /\ shapes[instances[i].shape_index + 1].parts
                   = CreateGpuShape(RefOfInstance(cad, i).shape, failing).parts

\* node a is a proper ancestor of node b
RECURSIVE IsAncestor(_, _, _)
IsAncestor(c, a, b) ==
    b # RootNode /\ (c.parent[b] = a \/ IsAncestor(c, a, c.parent[b]))

\* depth-first pre-order: a node comes before its descendants, and the subtree
\* of a child before the subtrees of the children stored after it
Precedes(c, a, b) ==
    \/ IsAncestor(c, a, b)
    \/ \E x, y \in NodeIds \ {RootNode} :
          /\ x < y /\ c.parent[x] = c.parent[y]
          /\ x = a \/ IsAncestor(c, x, a)
          /\ y = b \/ IsAncestor(c, y, b)

\* C27: instances are appended in depth-first pre-order (the references of a
\* node before those of its descendants, the subtrees of its children in child
\* order); the entries the list held before the call stay where they are.
C27_AppendedInPreOrder ==
    [][ncalls' = ncalls + 1 =>
          LET refs == ExpectedRefs(cad)
              added == Len(instances') - Len(instances)
          IN /\ added \in 0..Len(refs)
             /\ last_result' = "ok" => added = Len(refs)
             /\ \A i \in 1..Len(instances) : instances'[i] = instances[i]
             /\ \A i \in 1..added :
                   instances'[Len(instances) + i].transform = PathProduct(cad, refs[i].node)
             /\ \A i, j \in 1..Len(refs) :
                   i < j => \/ refs[i].node = refs[j].node
                            \/ Precedes(cad, refs[i].node, refs[j].node)]_vars

\* two calls on a root with two children that carry different transforms
C27_Witness ==
    /\ ncalls = 2 /\ last_result = "ok"
    /\ cad.parent[2] = 1 /\ cad.parent[3] = 1
    /\ cad.transform[1] = None /\ cad.transform[2] = Some(TransA)
    /\ cad.transform[3] = Some(TransB)
    /\ cad.shapes[1] = <<1>> /\ cad.shapes[2] = <<1, 2>> /\ cad.shapes[3] = <<1>>
    /\ Len(instances) = 8
    /\ instances[5].transform = Identity4
    /\ instances[6].transform = TransA /\ instances[7].transform = TransA
    /\ instances[8].transform = TransB

\* the transform compute_bbox, started at the root with the identity, applies to
\* the vertices of node n
RECURSIVE WorldTransformInBBox(_, _)
WorldTransformInBBox(c, n) ==
    IF n = RootNode THEN NodeTransform(c, n, Identity4)
    ELSE NodeTransform(c, n, WorldTransformInBBox(c, c.parent[n]))

\* the vertices of the shape behind instance i, moved by the instance's transform
InstancePoints(c, i) ==
    LET parts == ShapeParts(RefOfInstance(c, i).shape)
        ps == ConcatAll([m \in 1..Len(parts) |-> MeshPositions(parts[m].mesh)])
    IN [k \in 1..Len(ps) |-> TransformPoint(instances[i].transform, ps[k])]

\* C28: the world transform compute_bbox applies to the vertices of a node is
\* the transform the scene compiler stores in the node's instances (the root's
\* own transform applied once in both), so the bounding volume is the volume of
\* the instances' vertices.
C28_BBoxTransformIsInstanceTransform ==
    (ncalls = 1 /\ last_result = "ok") =>
        /\ \A i \in 1..Len(instances) :
              instances[i].transform = WorldTransformInBBox(cad, RefOfInstance(cad, i).node)
        /\ ComputeBBox(cad, RootNode, Identity4, BBoxNew)
              = ExtendAll(BBoxNew, ConcatAll([i \in 1..Len(instances) |-> InstancePoints(cad, i)]))

\* a compiled tree whose root and whose chain of two descendants carry transforms
C28_Witness ==
    /\ ncalls = 1 /\ last_result = "ok"
    /\ cad.parent[2] = 1 /\ cad.parent[3] = 2
    /\ cad.transform[1] = Some(TransA) /\ cad.transform[2] = Some(TransB)
    /\ cad.transform[3] = Some(TransA)
    /\ cad.shapes[1] = <<1>> /\ cad.shapes[3] = <<1, 2>>
    /\ instances[1].transform = TransA
    /\ instances[Len(instances)].transform = Mat4Mul(Mat4Mul(TransA, TransB), TransA)
    /\ instances[Len(instances)].transform # Mat4Mul(Mat4Mul(TransA, TransA), TransB)

-----------------------------------------------------------------------------
(* Claims about what a drag and the other events leave alone *)

\* a pointer move or a button release
MoveOrRelease ==
    \/ \E x, y \in CursorCoords : CursorMoved(x, y)
    \/ \E btn \in Buttons : MouseInput(btn, FALSE)

\* C29: in each mode a drag changes only that mode's field: a pointer move or a
\* release in Zoom changes only the radius, to saved radius + drift_y * 2.0, in
\* Move only the center, in Rotate only the axis; the other two of radius,
\* center and axis, the window size and the scene framing stay as they are.
C29_DragChangesOwnFieldOnly ==
    [][MoveOrRelease =>
          /\ camera.mode = "Zoom" =>
                camera'.data =
                    [camera.data EXCEPT !.radius =
                        FAdd(camera.saved_data.radius,
                             FMul(Drift(cursor_pos'[2], camera.save_cursor[2],
                                        camera.data.window_size[2]), 2 * Scale))]
          /\ camera.mode = "Move" =>
                camera'.data = [camera.data EXCEPT !.center = camera'.data.center]
          /\ camera.mode = "Rotate" =>
                camera'.data = [camera.data EXCEPT !.cam_axis = camera'.data.cam_axis]
          /\ camera.mode = "Nothing" => camera'.data = camera.data]_vars

\* a pan in progress that has moved the center and nothing else
C29_Witness ==
    /\ camera.mode = "Move"
    /\ cursor_pos # camera.save_cursor
    /\ FiniteVec(camera.data.center)
    /\ camera.data.center # camera.saved_data.center
    /\ [camera.data EXCEPT !.center = camera.saved_data.center] = camera.saved_data

\* C30: the interaction mode changes only on pointer-button press and release
\* events: pointer moves, window-size updates, focus, draw and key events leave
\* the mode unchanged.
C30_ModeChangesOnButtonsOnly ==
    [][camera'.mode # camera.mode =>
          \E btn \in Buttons, pressed \in BOOLEAN : MouseInput(btn, pressed)]_vars

\* a drag that has seen a pointer move, a resize and a draw and is still on
C30_Witness ==
    /\ camera.mode = "Rotate"
    /\ cursor_pos # camera.save_cursor
    /\ camera.data.window_size # camera.saved_data.window_size
    /\ camera.data.cam_axis # camera.saved_data.cam_axis

-----------------------------------------------------------------------------
(* Claims about presses during a drag and events in Idle *)

\* C31: a non-Idle mode is entered only from Idle: a press of the left, right
\* or middle button received while the camera is already in Zoom, Move or Rotate
\* changes neither the mode nor the saved snapshot nor the saved cursor.
C31_PressDuringDragIgnored ==
    [][\A btn \in {"Left", "Right", "Middle"} :
          (camera.mode # "Nothing" /\ MouseInput(btn, TRUE)) =>
              /\ camera'.mode = camera.mode
              /\ camera'.saved_data = camera.saved_data
              /\ camera'.save_cursor = camera.save_cursor]_vars

\* C32: in Idle, a pointer move or a button release (a release with no press
\* before it) leaves radius, center, axis and the mode unchanged, for every
\* cursor position.
C32_IdleMoveOrReleaseNoEffect ==
    [][(camera.mode = "Nothing" /\ MoveOrRelease) =>
          /\ camera'.data.radius = camera.data.radius
          /\ camera'.data.center = camera.data.center
          /\ camera'.data.cam_axis = camera.data.cam_axis
          /\ camera'.mode = "Nothing"]_vars

\* a focused camera that was never pressed on and has seen two pointer events,
\* the cursor now away from the origin
C32_Witness ==
    /\ phase = "running" /\ nev >= 2
    /\ camera.mode = "Nothing"
    /\ camera.saved_data = CameraDataNew /\ camera.save_cursor = <<0, 0>>
    /\ IsFin(camera.data.radius) /\ camera.data.radius # 0
    /\ cursor_pos = <<63 * Scale, 63 * Scale>>

-----------------------------------------------------------------------------
(* Claims about the window size the camera works with *)

\* a pointer move or a release that computes the drag drift (modify reads the
\* window size in every mode but Nothing)
ComputesDrift == camera.mode # "Nothing" /\ MoveOrRelease

\* C33: whenever a pointer move or a button release computes the drag drift, the
\* window size used for the normalization is the viewport size the renderer
\* holds (that of the latest resize event, or the initial context size if there
\* was none), for every interleaving of resize, draw and pointer events.
C33_DriftUsesRendererSize ==
    [][ComputesDrift => camera.data.window_size = <<width, height>>]_vars

\* C34: whenever the drag drift or the projection's aspect ratio is computed,
\* the camera's window width and height are both non-zero, for every sequence
\* of resize events (a resize to 0 included) followed by draw and pointer events.
C34_WindowSizeNonZero ==
    [][/\ ComputesDrift =>
            (camera.data.window_size[1] # 0 /\ camera.data.window_size[2] # 0)
       /\ (Draw /\ shader) =>
            (camera'.data.window_size[1] # 0 /\ camera'.data.window_size[2] # 0)]_vars

-----------------------------------------------------------------------------
(* The scene framing: a volume accumulated from vertex positions, then focus *)

\* compute_bbox visiting one more vertex, before the camera is focused
SceneExtend(p) == phase = "created" /\ ExtendPosStep(p)

\* Renderer::new focusing the new camera on the accumulated volume
SceneFocus ==
    /\ phase = "created"
    /\ LET r == Focus(CameraNew, scene_volume)
       IN /\ camera' = r.cam
          /\ phase' = IF r.err THEN "panicked" ELSE "constructed"
    /\ UNCHANGED <<scene_volume, width, height, shader, cursor_pos, nev>>
    /\ UNCHANGED <<gpu_vars, ser_vars>>
    /\ UNCHANGED frame

NextScene ==
    \/ \E p \in BoxPoints : SceneExtend(p)
    \/ SceneFocus

SpecScene == InitBBox /\ [][NextScene]_vars

\* the radii handed to set_scene
SceneRadii == {0, -1, 1, -Scale, 141, NInf, PInf, NaN}

\* C35: the camera's scene_radius is strictly positive in every reachable
\* state: it starts at 10, and set_scene, the only operation that writes it,
\* rejects every radius <= 0 without writing scene_center or scene_radius.
C35_SceneRadiusPositive ==
    /\ FGt(camera.data.scene_radius, 0)
    /\ \A r \in SceneRadii :
          FLe(r, 0) => SetScene(camera.data, GetCenter(scene_volume), r)
                          = [err |-> TRUE, data |-> camera.data]

\* a focus on a one-point scene away from the origin: set_scene was handed the
\* radius 0 and a center other than the stored one, and wrote neither
C35_Witness ==
    /\ phase = "panicked"
    /\ SizeIsZero(scene_volume) /\ GetCenter(scene_volume) = <<Scale, 0, 0>>
    /\ camera.data.center = <<Scale, 0, 0>>
    /\ camera.data.scene_center = <<0, 0, 0>>
    /\ camera.data.scene_radius = CameraDataNew.scene_radius

-----------------------------------------------------------------------------
(* Decoding text that is no encoded camera state *)

\* what can have happened to an encoded camera state before it is decoded
DamageKinds ==
    {"none", "short_center", "long_center", "short_axis", "no_axis", "null_radius",
     "null_in_axis"}

Damage(text, k) ==
    CASE k = "short_center" -> [text EXCEPT !.center = SubSeq(@, 1, 2)]
      [] k = "long_center" -> [text EXCEPT !.center = @ \o <<FormatF32(0)>>]
      [] k = "short_axis" -> [text EXCEPT !.cam_axis = SubSeq(@, 1, 8)]
      [] k = "no_axis" -> [text EXCEPT !.cam_axis = <<>>]
      [] k = "null_radius" -> [text EXCEPT !.radius = FormatF32(NaN)]
      [] k = "null_in_axis" -> [text EXCEPT !.cam_axis[5] = FormatF32(NaN)]
      [] OTHER -> text

InitDecode ==
    /\ cad \in {c \in ViewCadChoices : c.shapes[RootNode] = <<>>}
    /\ failing = {}
    /\ GpuInit /\ ViewInit
    /\ cam_data \in {[CameraDataNew EXCEPT !.radius = r, !.center = c, !.cam_axis = m] :
                         r \in SerialRadii, c \in SerialCenters, m \in SerialAxes}
    /\ \E k \in DamageKinds : json = Some(Damage(CameraDataToString(cam_data), k))
    /\ cam_data2 \in Receivers
    /\ decode_result = "none"

NextDecode == SetFromStringStep

\* set_from_string handed a text, damaged or not
SpecDecode == InitDecode /\ [][NextDecode]_vars

\* the text of a record with a radius, three center numbers and nine axis numbers
WellFormedText(text) ==
    /\ ~text.radius.null
    /\ Len(text.center) = 3 /\ \A k \in 1..3 : ~text.center[k].null
    /\ Len(text.cam_axis) = 9 /\ \A k \in 1..9 : ~text.cam_axis[k].null

\* C36: set_from_string on text that does not decode to a record with radius,
\* center[3] and cam_axis[9] returns an error and leaves every field of the
\* camera state unchanged.
C36_BadTextLeavesCamera ==
    [][(SetFromStringStep /\ ~WellFormedText(json[1])) =>
          (decode_result' = "err" /\ cam_data2' = cam_data2)]_vars

\* a text with a good radius and a center of two numbers was refused by a camera
\* state that holds another radius
C36_Witness ==
    /\ decode_result = "err"
    /\ ~json[1].radius.null /\ Len(json[1].center) = 2
    /\ cam_data.radius = 42 * Scale
    /\ cam_data2.radius = 144 /\ cam_data2.window_size = <<200, 150>>

====
